---- MODULE Spec2Model ----
(***************************************************************************)
(* Greek Scrabble (classes.py, main.py): the letter bag, the automated     *)
(* player's word search and the match loop of Game.                        *)
(*                                                                         *)
(* A word, and every token a player can hand to the match loop, is a       *)
(* Python string; here it is a sequence of one-character strings.  The     *)
(* Greek capitals are written by name ("ALPHA", "LAMBDA", "PHI"), the      *)
(* Latin characters of the tokens as themselves ("Q", "P", "A", "S").      *)
(***************************************************************************)
EXTENDS Integers, Sequences, FiniteSets, TLC

VARIABLES
    sak,        \* SakClass.sak: the bag, a list popped from its end
    wordset,    \* Game.wordset: the dictionary loaded at startup
    players,    \* Game.players: <<>> before setup, then <<human, computer>>
    strategy,   \* Game.strategy
    turn,       \* the local turn counter of Game.run
    pc,         \* where the program is: "main_menu", "run", "end", "exit";
                \* for a bag used on its own: "bag", "drawn", "returned"
    report,     \* what the last handler printed
    cpu,        \* a Computer outside a match: its play() is called on its
                \* own, or its hand is drawn from a bag on its own
    dict,       \* the wordset argument of that call
    word,       \* what the call returned
    called      \* whether the call has been made

vars == <<sak, wordset, players, strategy, turn, pc, report, cpu, dict, word, called>>

gameVars == <<sak, wordset, players, strategy, turn, pc, report>>

engineVars == <<cpu, dict, word, called>>

(***************************************************************************)
(* Bounds of the model.                                                    *)
(***************************************************************************)
\* A letter's supply in the bag is its supply in SakClass.letters, capped.
SupplyCap == 3

\* Tiles of a full hand (7 in the program), scaled to the capped bag.
HandSize == 2

\* Largest hand given to the word search on its own.
MaxHand == 4

\* Largest dictionary given to the word search on its own.
MaxWords == 3

\* Largest value of the turn counter of Game.run that the model follows.
MaxTurn == 3

Min(a, b) == IF a < b THEN a ELSE b

Max(a, b) == IF a > b THEN a ELSE b

Range(s) == {s[i] : i \in DOMAIN s}

Count(s, l) == Cardinality({i \in DOMAIN s : s[i] = l})

\* The concatenation of the sequences ss[a..b], by halves.
RECURSIVE FlattenRange(_, _, _)
FlattenRange(ss, a, b) ==
    IF a > b THEN <<>>
    ELSE IF a = b THEN ss[a]
    ELSE LET m == (a + b) \div 2
         IN  FlattenRange(ss, a, m) \o FlattenRange(ss, m + 1, b)

Flatten(ss) == FlattenRange(ss, 1, Len(ss))

(***************************************************************************)
(* SakClass                                                                *)
(***************************************************************************)
\* The letters of SakClass.letters the model keeps, in the table's order.
Alphabet == <<"ALPHA", "LAMBDA", "PHI">>

\* SakClass.letters: letter |-> <<count, score>>.
letters ==
    [l \in Range(Alphabet) |->
        CASE l = "ALPHA"  -> <<Min(12, SupplyCap), 1>>
          [] l = "LAMBDA" -> <<Min(3, SupplyCap), 3>>
          [] l = "PHI"    -> <<Min(1, SupplyCap), 8>>]

\* The bag before the shuffle: [letter] * count for each letter of the table.
Expanded ==
    Flatten([a \in 1..Len(Alphabet) |->
                [j \in 1..letters[Alphabet[a]][1] |-> Alphabet[a]]])

\* s without its first l.
RECURSIVE without(_, _)
without(s, l) ==
    IF Head(s) = l THEN Tail(s) ELSE <<Head(s)>> \o without(Tail(s), l)

\* random.shuffle: every order of the same tiles.
RECURSIVE shuffle(_)
shuffle(s) ==
    IF s = <<>> THEN {<<>>}
    ELSE UNION {{<<l>> \o t : t \in shuffle(without(s, l))} : l \in Range(s)}

\* SakClass.randomize_sak: the bags it can leave.
randomize_sak == shuffle(Expanded)

\* SakClass.getletters(n): pops min(n, len) tiles off the end of the bag.
getletters_keep(s, n) ==
    LET m == Max(0, Min(n, Len(s)))
    IN  [hand |-> [j \in 1..m |-> s[Len(s) - j + 1]], sak |-> s]

getletters_leave_one(s, n) ==
    LET m == Max(0, Min(n, Len(s) - 1))
    IN  [hand |-> [j \in 1..m |-> s[Len(s) - j + 1]],
         sak  |-> SubSeq(s, 1, Len(s) - m)]

getletters(s, n) ==
    LET m == Max(0, Min(n, Len(s)))
    IN  [hand |-> [j \in 1..m |-> s[Len(s) - j + 1]],
         sak  |-> SubSeq(s, 1, Len(s) - m)]

\* SakClass.putbackletters(letters): extend, then shuffle.
putbackletters_drop(s, ls) == shuffle(s)

putbackletters_twice(s, ls) == shuffle(s \o ls \o ls)

putbackletters(s, ls) == shuffle(s \o ls)

\* sum(letters[l][1] for l in w)
RECURSIVE score_of(_)
score_of(w) == IF w = <<>> THEN 0 ELSE letters[Head(w)][2] + score_of(Tail(w))

(***************************************************************************)
(* Tokens                                                                  *)
(***************************************************************************)
PASS == <<"P", "A", "S", "S">>

Q == <<"Q">>

P == <<"P">>

(***************************************************************************)
(* Computer: the word search                                               *)
(***************************************************************************)
\* Index tuples of itertools.permutations(range(n), r), in its order:
\* lexicographic by position.
Extend(p, n) ==
    SelectSeq([j \in 1..n |-> Append(p, j)],
              LAMBDA q : \A i \in 1..Len(p) : p[i] # q[Len(q)])

RECURSIVE PermIdx(_, _)
PermIdx(n, r) ==
    IF r = 0 THEN << <<>> >>
    ELSE LET prev == PermIdx(n, r - 1)
         IN  Flatten([a \in 1..Len(prev) |-> Extend(prev[a], n)])

\* The index tuples for every hand size and arity the model meets.
PermTable ==
    [n \in 0..Max(MaxHand, HandSize) |->
        [r \in 0..Max(MaxHand, HandSize) |-> PermIdx(n, r)]]

\* "".join(perm) for perm in itertools.permutations(hand, i), in order.
permutations(hand, i) ==
    LET ix == PermTable[Len(hand)][i]
    IN  [a \in 1..Len(ix) |-> [b \in 1..i |-> hand[ix[a][b]]]]

\* The candidates of one arity that are in the word set, in order.
hits(hand, i, ws) == SelectSeq(permutations(hand, i), LAMBDA w : w \in ws)

\* range(a, b): a, a+1, .., b-1.
range_up_from_one(a, b) == [j \in 1..Max(0, b - a + 1) |-> a + j - 2]

range_up(a, b) == [j \in 1..Max(0, b - a) |-> a + j - 1]

\* range(a, b, -1): a, a-1, .., b+1.
range_down(a, b) == [j \in 1..Max(0, a - b) |-> a - j + 1]

\* The arities the first loop of min_max_smart scans, in order.
arities_up(hand, strat) == range_up(2, Len(hand) + 1)

arities_down(hand, strat) == range_down(Len(hand), 1)

arities(hand, strat) ==
    IF strat = "MIN" THEN range_up(2, Len(hand) + 1)
    ELSE range_down(Len(hand), 1)

\* The first loop of min_max_smart from position j of the arities on, with
\* the words collected so far: the word it returns, or <<>> when the loop
\* runs out.
RECURSIVE first_loop(_, _, _, _, _)
first_loop(hand, strat, ws, j, words) ==
    LET ar == arities(hand, strat)
    IN  IF j > Len(ar) THEN [returned |-> FALSE, value |-> <<>>]
        ELSE LET words2 == words \o hits(hand, ar[j], ws)
             IN  IF strat \in {"MIN", "MAX"} /\ words2 # <<>>
                 THEN [returned |-> TRUE, value |-> words2[1]]
                 ELSE first_loop(hand, strat, ws, j + 1, words2)

\* The inner loop of the best-score search over the candidates of one arity
\* that are in the word set (the loop skips the others), from position j
\* on: best_word and best_score when it ends.
RECURSIVE best_scan_first(_, _, _)
best_scan_first(found, j, best) ==
    IF j > Len(found) THEN best
    ELSE IF best.word = <<>>
         THEN best_scan_first(found, j + 1, [word |-> found[j], score |-> score_of(found[j])])
         ELSE best_scan_first(found, j + 1, best)

RECURSIVE best_scan(_, _, _)
best_scan(found, j, best) ==
    IF j > Len(found) THEN best
    ELSE IF score_of(found[j]) > best.score
         THEN best_scan(found, j + 1, [word |-> found[j], score |-> score_of(found[j])])
         ELSE best_scan(found, j + 1, best)

\* The outer loop of the best-score search of min_max_smart (SMART) and of
\* smart_teach, from arity i on: best_word when it ends.
RECURSIVE best_loop(_, _, _, _)
best_loop(hand, ws, i, best) ==
    IF i > Len(hand) THEN best.word
    ELSE best_loop(hand, ws, i + 1, best_scan(hits(hand, i, ws), 1, best))

\* Computer.min_max_smart
min_max_smart(hand, strat, ws) ==
    LET first == first_loop(hand, strat, ws, 1, <<>>)
    IN  IF first.returned THEN first.value
        ELSE IF strat = "SMART"
             THEN LET best_word == best_loop(hand, ws, 2, [word |-> <<>>, score |-> 0])
                  IN  IF best_word # <<>> THEN best_word ELSE PASS
             ELSE PASS

\* Tuple order of Python on (score, word): by score, then by the string,
\* whose characters compare by code point (the order of Alphabet).
rank(l) == CHOOSE a \in 1..Len(Alphabet) : Alphabet[a] = l

RECURSIVE str_less(_, _)
str_less(v, w) ==
    IF w = <<>> THEN FALSE
    ELSE IF v = <<>> THEN TRUE
    ELSE IF Head(v) # Head(w) THEN rank(Head(v)) < rank(Head(w))
    ELSE str_less(Tail(v), Tail(w))

pair_less(x, y) == x[1] < y[1] \/ (x[1] = y[1] /\ str_less(x[2], y[2]))

\* list.sort(reverse=True): insertion into a descending list.
RECURSIVE insert_desc(_, _)
insert_desc(x, s) ==
    IF s = <<>> THEN <<x>>
    ELSE IF pair_less(Head(s), x) THEN <<x>> \o s
    ELSE <<Head(s)>> \o insert_desc(x, Tail(s))

RECURSIVE sort_reverse(_)
sort_reverse(s) ==
    IF s = <<>> THEN <<>> ELSE insert_desc(Head(s), sort_reverse(Tail(s)))

\* Computer.fail_strategy
fail_strategy(hand, ws) ==
    LET ar == range_up(2, Len(hand) + 1)
        found == Flatten([j \in 1..Len(ar) |-> hits(hand, ar[j], ws)])
        words_scores == sort_reverse([j \in 1..Len(found) |-> <<score_of(found[j]), found[j]>>])
    IN  IF words_scores = <<>> THEN PASS
        ELSE IF Len(words_scores) > 1 THEN words_scores[2][2]
        ELSE words_scores[1][2]

\* Computer.smart_learn
smart_learn(hand, strat, ws) == min_max_smart(hand, strat, ws)

smart_teach_longest(hand, ws) == min_max_smart(hand, "MAX", ws)

\* Computer.smart_teach
smart_teach(hand, ws) ==
    LET best_word == best_loop(hand, ws, 2, [word |-> <<>>, score |-> 0])
    IN  IF best_word # <<>> THEN best_word ELSE PASS

\* Computer.play
play(c, ws) ==
    LET all == ws \cup c.learned_words
    IN  CASE c.strategy \in {"MIN", "MAX", "SMART"} -> min_max_smart(c.hand, c.strategy, all)
          [] c.strategy = "FAIL"  -> fail_strategy(c.hand, all)
          [] c.strategy = "LEARN" -> smart_learn(c.hand, c.strategy, all)
          [] c.strategy = "TEACH" -> smart_teach(c.hand, all)
          [] OTHER -> PASS

\* The arities the first loop of min_max_smart has enumerated when it is
\* left: all of them, or those up to the first one after which words is not
\* empty (MIN and MAX).
first_loop_scanned(hand, strat, ws) ==
    LET ar == arities(hand, strat)
        stop == {j \in 1..Len(ar) :
                    /\ strat \in {"MIN", "MAX"}
                    /\ \E k \in 1..j : hits(hand, ar[k], ws) # <<>>}
        last == IF stop = {} THEN Len(ar)
                ELSE CHOOSE j \in stop : \A k \in stop : j <= k
    IN  {ar[j] : j \in 1..last}

\* The arities i for which play enumerates itertools.permutations(hand, i).
scanned(c, ws) ==
    LET all == ws \cup c.learned_words
        full == Range(range_up(2, Len(c.hand) + 1))
    IN  CASE c.strategy \in {"MIN", "MAX"} -> first_loop_scanned(c.hand, c.strategy, all)
          [] c.strategy = "SMART" -> first_loop_scanned(c.hand, c.strategy, all) \cup full
          [] c.strategy = "FAIL"  -> full
          [] c.strategy = "LEARN" -> first_loop_scanned(c.hand, c.strategy, all)
          [] c.strategy = "TEACH" -> full
          [] OTHER -> {}

\* The strings w = "".join(perm) that play tests with "w in wordset".
tested(c, ws) == UNION {Range(permutations(c.hand, i)) : i \in scanned(c, ws)}

\* Player.__init__ / Computer.__init__
Human(name) == [name |-> name, hand |-> <<>>, score |-> 0]

Computer(name, strat) ==
    [name |-> name, hand |-> <<>>, score |-> 0,
     strategy |-> strat, learned_words |-> {}]

Strategies == {"MIN", "MAX", "SMART", "FAIL", "LEARN", "TEACH"}

(***************************************************************************)
(* Human.play: the line typed, stripped and upper-cased                    *)
(***************************************************************************)
\* str.upper on the characters that can be typed.
upper(c) ==
    CASE c = "q" -> "Q"
      [] c = "p" -> "P"
      [] c = "a" -> "A"
      [] c = "s" -> "S"
      [] c = "alpha"  -> "ALPHA"
      [] c = "lambda" -> "LAMBDA"
      [] c = "phi"    -> "PHI"
      [] OTHER -> c

\* str.strip: drops the blanks at both ends.
RECURSIVE lstrip(_)
lstrip(t) == IF t # <<>> /\ Head(t) = " " THEN lstrip(Tail(t)) ELSE t

RECURSIVE rstrip(_)
rstrip(t) ==
    IF t # <<>> /\ t[Len(t)] = " " THEN rstrip(SubSeq(t, 1, Len(t) - 1)) ELSE t

strip(t) == rstrip(lstrip(t))

\* Human.play: input(...).strip().upper()
human_play(typed) == LET t == strip(typed) IN [j \in 1..Len(t) |-> upper(t[j])]

\* The dictionary main.py loads: an excerpt of greek7.txt over the Alphabet.
Lexicon ==
    { <<"ALPHA", "LAMBDA", "PHI", "ALPHA">>, <<"ALPHA", "LAMBDA", "ALPHA">>,
      <<"PHI", "ALPHA">>, <<"LAMBDA", "ALPHA">>, <<"ALPHA">> }

\* The lines the human types.
Typed ==
    { <<"q">>, <<"Q">>, <<"p">>, <<" ", "P">>, <<"P", "A", "S", "S">>,
      <<"p", "a", "s", "s", " ">>, <<>>,
      <<"lambda", "alpha">>, <<"phi", "alpha", " ">> }
    \cup Lexicon
    \cup {<<"ALPHA", "LAMBDA">>, <<"ALPHA", "PHI">>, <<"ALPHA", "ALPHA">>, <<"LAMBDA">>}

(***************************************************************************)
(* Game                                                                    *)
(***************************************************************************)
\* What a handler printed: the kind of message, and the player, word, points
\* and advised word it shows.
Report(kind, name, w, n, best) ==
    [kind |-> kind, player |-> name, word |-> w, score |-> n, best |-> best]

Note(kind) == Report(kind, "", <<>>, 0, <<>>)

\* isinstance(p, Human) / isinstance(p, Computer)
is_computer(p) == "strategy" \in DOMAIN p

is_human(p) == ~is_computer(p)

\* list.remove(l): drops the first occurrence of l.
RECURSIVE remove_all_of(_, _)
remove_all_of(hand, l) ==
    IF hand = <<>> THEN <<>>
    ELSE IF Head(hand) = l THEN remove_all_of(Tail(hand), l)
    ELSE <<Head(hand)>> \o remove_all_of(Tail(hand), l)

RECURSIVE remove(_, _)
remove(hand, l) ==
    IF Head(hand) = l THEN Tail(hand) ELSE <<Head(hand)>> \o remove(Tail(hand), l)

\* for l in word: player.hand.remove(l)
RECURSIVE remove_word(_, _)
remove_word(hand, w) ==
    IF w = <<>> THEN hand ELSE remove_word(remove(hand, Head(w)), Tail(w))

\* word in self.wordset and all(word.count(l) <= player.hand.count(l) for l in word)
valid_move_spelled(w, hand, ws) ==
    \A l \in Range(w) : Count(w, l) <= Count(hand, l)

valid_move_ordered(w, hand, ws) ==
    w \in ws /\ Len(w) <= Len(hand) /\ w = SubSeq(hand, 1, Len(w))

valid_move(w, hand, ws) ==
    w \in ws /\ \A l \in Range(w) : Count(w, l) <= Count(hand, l)

\* if not self.sak.sak: break
bag_end_never(s) == FALSE

bag_end(s) == s = <<>>

\* Game.settings: strategies.get(choice, "SMART")
settings_choice(choice) ==
    CASE choice = "a" -> "MIN"
      [] choice = "b" -> "MAX"
      [] choice = "c" -> "SMART"
      [] choice = "d" -> "FAIL"
      [] choice = "e" -> "LEARN"
      [] choice = "f" -> "TEACH"
      [] OTHER -> "SMART"

\* Game.setup: two new players, each dealt a hand off the bag as it is.
setup_computer_first(s, strat) ==
    LET d1 == getletters(s, HandSize)
        d2 == getletters(d1.sak, HandSize)
    IN  [players |-> << [Computer("COMPUTER", strat) EXCEPT !.hand = d1.hand],
                         [Human("HUMAN") EXCEPT !.hand = d2.hand] >>,
         sak |-> d2.sak]

setup_one_hand(s, strat) ==
    LET d1 == getletters(s, HandSize)
    IN  [players |-> << [Human("HUMAN") EXCEPT !.hand = d1.hand],
                         Computer("COMPUTER", strat) >>,
         sak |-> d1.sak]

setup(s, strat) ==
    LET d1 == getletters(s, HandSize)
        d2 == getletters(d1.sak, HandSize)
    IN  [players |-> << [Human("HUMAN") EXCEPT !.hand = d1.hand],
                         [Computer("COMPUTER", strat) EXCEPT !.hand = d2.hand] >>,
         sak |-> d2.sak]

\* The branch of the loop body of Game.run taken for the token w of player
\* i, where shuffled is the bag putbackletters leaves when w is "P".
run_body(i, w, shuffled) ==
    LET player == players[i]
        same == [sak |-> sak, players |-> players, quit |-> FALSE]
    IN  IF w = Q THEN
            [same EXCEPT !.quit = TRUE]
              @@ [report |-> Report("quit", player.name, w, 0, <<>>)]
        ELSE IF w = P THEN
            LET d == getletters(shuffled, HandSize)
            IN  [sak |-> d.sak,
                 players |-> [players EXCEPT ![i].hand = d.hand],
                 quit |-> FALSE,
                 report |-> Report("changed", player.name, w, 0, <<>>)]
        ELSE IF valid_move(w, player.hand, wordset) THEN
            LET score == score_of(w)
                rest == remove_word(player.hand, w)
                d == getletters(sak, HandSize - Len(rest))
            IN  [sak |-> d.sak,
                 players |-> [players EXCEPT ![i].score = @ + score,
                                             ![i].hand = rest \o d.hand],
                 quit |-> FALSE,
                 report |-> Report("played", player.name, w, score, <<>>)]
        ELSE IF w = PASS THEN
            same @@ [report |-> Report("passed", player.name, w, 0, <<>>)]
        ELSE IF is_human(player) /\ strategy = "TEACH" THEN
            LET computer == players[CHOOSE k \in 1..Len(players) :
                                      /\ is_computer(players[k])
                                      /\ \A h \in 1..(k - 1) : ~is_computer(players[h])]
                best_word == smart_teach(computer.hand, wordset)
            IN  same @@ [report |-> IF w \in wordset
                                    THEN Report("teach", player.name, w, 0, best_word)
                                    ELSE Report("silent", player.name, w, 0, <<>>)]
        ELSE
            same @@ [report |-> Report("invalid", player.name, w, 0, <<>>)]

\* One pass of the loop of Game.run with the token w of the player to move.
\* (What is printed does not depend on the shuffle.)
Iteration(w) ==
    LET i == (turn % 2) + 1
    IN  /\ pc = "run"
        /\ turn < MaxTurn \/ w = Q
        /\ report' = run_body(i, w, sak).report
        /\ \E shuffled \in (IF w = P THEN putbackletters(sak, players[i].hand) ELSE {sak}) :
              LET r == run_body(i, w, shuffled)
              IN  /\ sak' = r.sak
                  /\ players' = r.players
                  /\ IF r.quit \/ bag_end(r.sak)
                     THEN pc' = "end" /\ turn' = turn
                     ELSE pc' = "run" /\ turn' = turn + 1
        /\ UNCHANGED <<wordset, strategy>>
        /\ UNCHANGED engineVars

\* The human is to move and types a line.
HumanMove ==
    /\ pc = "run"
    /\ is_human(players[(turn % 2) + 1])
    /\ \E typed \in Typed : Iteration(human_play(typed))

\* The computer is to move.
ComputerMove ==
    /\ pc = "run"
    /\ is_computer(players[(turn % 2) + 1])
    /\ Iteration(play(players[(turn % 2) + 1], wordset))

\* Game.end: prints the players; there are never learned words to save.
End ==
    /\ pc = "end"
    /\ pc' = "main_menu"
    /\ report' = Note("game_over")
    /\ UNCHANGED <<sak, wordset, players, strategy, turn>>
    /\ UNCHANGED engineVars

\* Game.main_menu, choice "1": Game.show_scores.
ShowScores ==
    /\ pc = "main_menu"
    /\ report' = Note(IF players = <<>> THEN "no_scores" ELSE "scores")
    /\ UNCHANGED <<sak, wordset, players, strategy, turn, pc>>
    /\ UNCHANGED engineVars

\* Game.main_menu, choice "2": Game.settings.
Settings ==
    /\ pc = "main_menu"
    /\ \E choice \in {"a", "b", "c", "d", "e", "f", "x"} :
          strategy' = settings_choice(choice)
    /\ report' = Note("strategy")
    /\ UNCHANGED <<sak, wordset, players, turn, pc>>
    /\ UNCHANGED engineVars

\* Game.main_menu, choice "3": Game.setup, then Game.run up to its first
\* request for a move.
Play ==
    /\ pc = "main_menu"
    /\ LET g == setup(sak, strategy)
       IN  sak' = g.sak /\ players' = g.players
    /\ turn' = 0
    /\ pc' = "run"
    /\ report' = Note("prompt")
    /\ UNCHANGED <<wordset, strategy>>
    /\ UNCHANGED engineVars

\* Game.main_menu, choice "q".
Exit ==
    /\ pc = "main_menu"
    /\ pc' = "exit"
    /\ report' = Note("exit")
    /\ UNCHANGED <<sak, wordset, players, strategy, turn>>
    /\ UNCHANGED engineVars

\* Game.main_menu, any other choice.
InvalidOption ==
    /\ pc = "main_menu"
    /\ report' = Note("invalid_option")
    /\ UNCHANGED <<sak, wordset, players, strategy, turn, pc>>
    /\ UNCHANGED engineVars

\* main.py: the dictionary is loaded, Game(wordset) shuffles a full bag.
Init ==
    /\ sak \in randomize_sak
    /\ wordset = Lexicon
    /\ players = <<>>
    /\ strategy = "SMART"
    /\ turn = 0
    /\ pc = "main_menu"
    /\ report = Note("none")
    /\ cpu = Computer("COMPUTER", "SMART")
    /\ dict = {}
    /\ word = <<>>
    /\ called = FALSE

Next ==
    \/ ShowScores
    \/ Settings
    \/ Play
    \/ Exit
    \/ InvalidOption
    \/ HumanMove
    \/ ComputerMove
    \/ End

Spec == Init /\ [][Next]_vars

(***************************************************************************)
(* Properties of the match                                                 *)
(***************************************************************************)
\* The sum of all supply counts of the letter table.
RECURSIVE SupplyFrom(_)
SupplyFrom(a) ==
    IF a > Len(Alphabet) THEN 0 ELSE letters[Alphabet[a]][1] + SupplyFrom(a + 1)

TotalTiles == SupplyFrom(1)

\* Tiles in the bag and in both hands.
Tiles == Len(sak) + Len(players[1].hand) + Len(players[2].hand)

InMatch == pc \in {"run", "end"}

\* The player to move, and the other one.
Mover == players[(turn % 2) + 1]

Other == players[2 - (turn % 2)]

\* The same two players after the step.
MoverAfter == players'[(turn % 2) + 1]

OtherAfter == players'[2 - (turn % 2)]

\* Every token a player can hand to the loop of Game.run.
Tokens == {human_play(t) : t \in Typed} \cup {PASS}

\* The point value of a word: each letter's value times its occurrences.
RECURSIVE PointsFrom(_, _)
PointsFrom(w, a) ==
    IF a > Len(Alphabet) THEN 0
    ELSE Count(w, Alphabet[a]) * letters[Alphabet[a]][2] + PointsFrom(w, a + 1)

Points(w) == PointsFrom(w, 1)

\* w is a word of the dictionary that the hand can spell.
Playable(w, hand) ==
    /\ w \notin {Q, P}
    /\ w \in wordset
    /\ \A l \in Range(w) : Count(w, l) <= Count(hand, l)

\* The turn goes to the other player.
TurnPasses == pc' = "run" /\ turn' = turn + 1 /\ Mover' = OtherAfter

\* The match is over: Game.end is all that is left of it.
MatchEnds == pc' = "end"

\* C1 (as claimed): in every state of a match, bag plus both hands hold all
\* the tiles of the letter table.
C1_AllTilesInBagAndHands == InMatch => Tiles = TotalTiles

\* C1 (amended): bag plus both hands never hold more than the tiles of the
\* letter table; they hold all of them right after the first setup; a turn
\* leaves their number unchanged unless a word is played, and a played word
\* lowers it by the length of the word.
C1_TilesAccounted ==
    /\ [](InMatch => Tiles <= TotalTiles)
    /\ [][(pc = "main_menu" /\ pc' = "run" /\ players = <<>>) => Tiles' = TotalTiles]_vars
    /\ [][\A w \in Tokens : Iteration(w) =>
            Tiles' = Tiles - (IF Playable(w, Mover.hand) THEN Len(w) ELSE 0)]_vars

C1_Witness ==
    /\ InMatch
    /\ report.kind = "played"
    /\ Len(report.word) >= 2
    /\ Tiles = TotalTiles - Len(report.word)

\* What C7 and its amendment share: the score rises by the word's points,
\* the hand loses the word's letters and gains the tiles that left the end
\* of the bag, up to a full hand or an empty bag, and the other player is
\* untouched.
PlayedWordEffect(w) ==
    /\ MoverAfter.score = Mover.score + Points(w)
    /\ Len(MoverAfter.hand) = Min(HandSize, Len(Mover.hand) - Len(w) + Len(sak))
    /\ sak' = SubSeq(sak, 1, Len(sak'))
    /\ \A l \in Range(Alphabet) :
          Count(MoverAfter.hand, l)
            = Count(Mover.hand, l) - Count(w, l) + (Count(sak, l) - Count(sak', l))
    /\ OtherAfter = Other

\* C7 (as claimed): a playable dictionary word scores its points, leaves
\* the hand, the hand is refilled, the other player is untouched and the
\* turn passes to the other player.
C7_PlayedWordPassesTurn ==
    [][\A w \in Tokens : (pc = "run" /\ Playable(w, Mover.hand) /\ Iteration(w))
          => (PlayedWordEffect(w) /\ TurnPasses)]_vars

\* C7 (amended): as claimed, except that the turn passes to the other player
\* only if the refill leaves tiles in the bag; if it empties the bag the
\* match ends.
C7_PlayedWord ==
    [][\A w \in Tokens : (pc = "run" /\ Playable(w, Mover.hand) /\ Iteration(w))
          => /\ PlayedWordEffect(w)
             /\ IF sak' = <<>> THEN MatchEnds ELSE TurnPasses]_vars

C7_Witness ==
    /\ pc = "run"
    /\ turn = 1
    /\ report.kind = "played"
    /\ report.player = "HUMAN"
    /\ Len(report.word) >= 2
    /\ players[1].score = Points(report.word)
    /\ Len(players[1].hand) = HandSize
    /\ sak # <<>>

\* C8: after a turn that is not a quit the match is over if the bag is
\* empty, whoever would be next, and goes on with the other player if it is
\* not; once over, no move is made before the match is left.
C8_EmptyBagEndsMatch ==
    /\ [][\A w \in Tokens \ {Q} : Iteration(w) =>
            IF sak' = <<>> THEN MatchEnds ELSE TurnPasses]_vars
    /\ [][pc = "end" => (pc' = "main_menu" /\ players' = players /\ sak' = sak)]_vars

C8_Witness ==
    /\ pc = "end"
    /\ sak = <<>>
    /\ report.kind = "played"
    /\ report.player = "COMPUTER"
    /\ turn = 1

\* C9 (as claimed): with the strategy TEACH, after a human move with a word
\* (played or refused), the best-scoring acceptable word for the human's
\* hand of that move is shown as advice, and scores and hands are what the
\* move alone makes them.
C9_TeachAdvisesAfterEachHumanMove ==
    [][\A w \in Tokens \ {Q, P, PASS} :
          (pc = "run" /\ strategy = "TEACH" /\ is_human(Mover) /\ Iteration(w))
          => /\ report'.kind \in {"played", "teach"}
             /\ report'.best = smart_teach(Mover.hand, wordset)]_vars

\* What C10 and its amendment share: the hand is full again, the bag is as
\* large as before, bag and hand together hold the same tiles, and scores
\* and the other hand are unchanged.
ExchangeEffect ==
    /\ Len(MoverAfter.hand) = HandSize
    /\ Len(sak') = Len(sak)
    /\ \A l \in Range(Alphabet) :
          Count(sak', l) + Count(MoverAfter.hand, l) = Count(sak, l) + Count(Mover.hand, l)
    /\ MoverAfter.score = Mover.score
    /\ OtherAfter = Other

\* C10 (as claimed): an exchange with a full hand refills the hand, keeps
\* the bag's size and the tiles of bag plus hand, changes no score and not
\* the other hand, and passes the turn to the other player.
C10_ExchangePassesTurn ==
    [][(pc = "run" /\ Len(Mover.hand) = HandSize /\ Iteration(P))
          => (ExchangeEffect /\ TurnPasses)]_vars

\* C10 (amended): as claimed when the bag is not empty; with an empty bag
\* the exchange has the same effect on hand, bag and scores, and the match
\* ends instead of the turn passing.
C10_Exchange ==
    [][(pc = "run" /\ Len(Mover.hand) = HandSize /\ Iteration(P))
          => /\ ExchangeEffect
             /\ IF sak = <<>> THEN MatchEnds ELSE TurnPasses]_vars

C10_Witness ==
    /\ pc = "run"
    /\ turn = 1
    /\ report.kind = "changed"
    /\ Len(players[1].hand) = HandSize
    /\ Len(sak) >= HandSize

\* C11: a turn whose token is PASS, or a word that is not in the dictionary
\* or that the hand cannot spell, leaves both scores, both hands and the bag
\* as they were, whatever the strategy, and with a bag that is not empty the
\* other player moves next.
C11_PassOrInvalidChangesNothing ==
    [][\A w \in Tokens \ {Q, P} :
          (pc = "run" /\ ~Playable(w, Mover.hand) /\ Iteration(w))
          => /\ players' = players
             /\ sak' = sak
             /\ sak # <<>> => TurnPasses]_vars

C11_Witness ==
    /\ pc = "run"
    /\ turn = 2
    /\ strategy = "TEACH"
    /\ report.kind = "passed"
    /\ report.player = "COMPUTER"
    /\ sak # <<>>
    /\ players[1].score = 0

\* C12: in every match the first move is asked of the human, and after a
\* turn that does not end the match the next move is asked of the player who
\* did not make that turn, whatever the turn was.
C12_HumanFirstThenAlternate ==
    /\ [][(pc = "main_menu" /\ pc' = "run") => (turn' = 0 /\ is_human(Mover'))]_vars
    /\ [][\A w \in Tokens : (pc = "run" /\ Iteration(w) /\ pc' = "run")
            => (Mover'.name # Mover.name /\ Mover' = OtherAfter)]_vars
    /\ [](pc = "run" => Mover.name = (IF turn % 2 = 0 THEN "HUMAN" ELSE "COMPUTER"))

C12_Witness ==
    /\ pc = "run"
    /\ turn = 2
    /\ is_human(Mover)
    /\ report.player = "COMPUTER"
    /\ report.kind = "played"

\* C17 (as claimed): a turn whose token is not Q, P or PASS and not a word
\* of the dictionary that the hand can spell is reported as an invalid word,
\* whoever moves and whatever the strategy.
C17_InvalidWordIsReported ==
    [][\A w \in Tokens \ {Q, P, PASS} :
          (pc = "run" /\ ~Playable(w, Mover.hand) /\ Iteration(w))
          => report'.kind = "invalid"]_vars

\* C18: a word other than PASS that the computer returns is in the
\* dictionary and within its hand, so the turn is a played word, never an
\* invalid one, and the computer's score rises by the word's points.
C18_ComputerWordIsAccepted ==
    [][(pc = "run" /\ is_computer(Mover) /\ play(Mover, wordset) # PASS /\ ComputerMove)
          => LET w == play(Mover, wordset)
             IN  /\ w \in wordset
                 /\ \A l \in Range(w) : Count(w, l) <= Count(Mover.hand, l)
                 /\ report'.kind = "played"
                 /\ report'.word = w
                 /\ MoverAfter.score = Mover.score + Points(w)]_vars

C18_Witness ==
    /\ InMatch
    /\ strategy = "FAIL"
    /\ report.kind = "played"
    /\ report.player = "COMPUTER"
    /\ players[2].score = Points(report.word)
    /\ players[2].score > 0

\* Both players hold a full hand.
FullHands ==
    /\ Len(players[1].hand) = HandSize
    /\ Len(players[2].hand) = HandSize

\* C19: a match set up from the full bag starts with two full hands and a
\* bag that is not empty; a turn that starts so and after which a move is
\* asked again leaves it so; and if it ends the match with a hand that is
\* not full, the bag is empty.
C19_FullHandsWhileBagLasts ==
    /\ [][(pc = "main_menu" /\ players = <<>> /\ pc' = "run")
            => (FullHands' /\ sak' # <<>>)]_vars
    /\ [][(pc = "run" /\ FullHands /\ sak # <<>> /\ pc' = "run")
            => (FullHands' /\ sak' # <<>>)]_vars
    /\ [][(pc = "run" /\ FullHands /\ sak # <<>> /\ pc' = "end" /\ ~FullHands')
            => sak' = <<>>]_vars

C19_Witness ==
    /\ pc = "run"
    /\ turn = 2
    /\ FullHands
    /\ sak # <<>>
    /\ Len(sak) < TotalTiles - 2 * HandSize
    /\ report.kind = "played"

\* C20: in a match no step, whatever the turn and the size of the hand,
\* leaves more tiles in the bag than it found there; an empty bag stays
\* empty.
C20_BagNeverGrows ==
    /\ [][InMatch => Len(sak') <= Len(sak)]_vars
    /\ [][(pc = "run" /\ Iteration(P))
            => Len(sak') = Max(0, Len(sak) + Len(Mover.hand) - HandSize)]_vars
    /\ [][(InMatch /\ sak = <<>> /\ InMatch') => sak' = <<>>]_vars

C20_Witness ==
    /\ pc = "end"
    /\ report.kind = "changed"
    /\ sak = <<>>
    /\ Len(players[1].hand) = 1

(***************************************************************************)
(* The word search on its own: a Computer with any hand of at most MaxHand *)
(* tiles and any strategy, asked to play against any dictionary made of    *)
(* the words below.                                                        *)
(***************************************************************************)
WordUniverse ==
    { <<"ALPHA", "LAMBDA", "PHI", "ALPHA">>, <<"ALPHA", "LAMBDA", "ALPHA">>,
      <<"LAMBDA", "ALPHA", "ALPHA">>, <<"PHI", "ALPHA">>,
      <<"ALPHA", "LAMBDA">>, <<"LAMBDA", "ALPHA">>, <<"ALPHA">> }

Dictionaries == {d \in SUBSET WordUniverse : Cardinality(d) <= MaxWords}

\* A hand is drawn from the bag: it holds no letter more often than the bag.
Hands ==
    {h \in UNION {[1..k -> Range(Alphabet)] : k \in 0..MaxHand} :
        \A l \in Range(Alphabet) : Count(h, l) <= letters[l][1]}

\* The state of the game right after Game.__init__, before any menu choice.
Constructed ==
    /\ sak = Expanded
    /\ wordset = {}
    /\ players = <<>>
    /\ strategy = "SMART"
    /\ turn = 0
    /\ pc = "main_menu"
    /\ report = Note("none")

EngineInit ==
    /\ Constructed
    /\ cpu \in {[Computer("COMPUTER", s) EXCEPT !.hand = h] : s \in Strategies, h \in Hands}
    /\ dict \in Dictionaries
    /\ word = <<>>
    /\ called = FALSE

\* word = cpu.play(dict)
ComputerPlay ==
    /\ ~called
    /\ word' = play(cpu, dict)
    /\ called' = TRUE
    /\ UNCHANGED <<cpu, dict>>
    /\ UNCHANGED gameVars

EngineNext == ComputerPlay

EngineSpec == EngineInit /\ [][EngineNext]_vars

(***************************************************************************)
(* Properties of the word search                                           *)
(***************************************************************************)
\* The acceptable words derivable from a hand: words of the dictionary of
\* 2..len(hand) letters that use no letter more often than the hand holds it.
Acceptable(hand, ws) ==
    {w \in ws : /\ Len(w) >= 2
                /\ Len(w) <= Len(hand)
                /\ \A l \in Range(w) : Count(w, l) <= Count(hand, l)}

BestScore(ws) == CHOOSE n \in {score_of(w) : w \in ws} : \A w \in ws : score_of(w) <= n

\* w is the first word of the dictionary among the arrangements of its own
\* arity, in the positional enumeration order.
FirstOfItsArity(w, hand, ws) ==
    LET ps == permutations(hand, Len(w))
    IN  \E a \in 1..Len(ps) : ps[a] = w /\ \A b \in 1..(a - 1) : ps[b] \notin ws

Returned(strat) == called /\ cpu.strategy = strat

\* C2 (as claimed): with at least two distinct acceptable words, one of them
\* scoring strictly less than the best, FAIL returns the second entry of the
\* distinct acceptable words ordered by descending (score, word), and so
\* never the single highest-scoring word.
C2_FailReturnsSecondBest ==
    LET acc == Acceptable(cpu.hand, dict)
        greater(w) == {v \in acc : pair_less(<<score_of(w), w>>, <<score_of(v), v>>)}
    IN  (/\ Returned("FAIL")
         /\ Cardinality(acc) >= 2
         /\ \E w \in acc : score_of(w) < BestScore(acc))
        => /\ word \in acc
           /\ Cardinality(greater(word)) = 1
           /\ (Cardinality({w \in acc : score_of(w) = BestScore(acc)}) = 1
                 => score_of(word) < BestScore(acc))

\* C3 (as claimed): a LEARN player returns what a MIN player returns on the
\* same hand and dictionary.
C3_LearnReturnsWhatMinReturns ==
    Returned("LEARN") => word = play([cpu EXCEPT !.strategy = "MIN"], dict)

\* C4: when SMART returns a word it is acceptable and no acceptable word
\* scores more; SMART returns PASS only if there is no acceptable word.
C4_SmartReturnsBestScore ==
    LET acc == Acceptable(cpu.hand, dict)
    IN  Returned("SMART")
        => /\ word # PASS => (word \in acc /\ \A w \in acc : score_of(w) <= score_of(word))
           /\ word = PASS => acc = {}

C4_Witness ==
    /\ Returned("SMART")
    /\ word # PASS
    /\ \E w \in Acceptable(cpu.hand, dict) : score_of(w) < score_of(word)
    /\ \E w \in Acceptable(cpu.hand, dict) : Len(w) < Len(word)

\* C5: MIN returns the first acceptable word, in enumeration order, of the
\* smallest arity that has one, so a word of minimal length; it returns
\* PASS iff there is no acceptable word.
C5_MinReturnsFirstShortest ==
    LET acc == Acceptable(cpu.hand, dict)
    IN  Returned("MIN")
        => /\ word = PASS <=> acc = {}
           /\ word # PASS => /\ word \in acc
                             /\ \A w \in acc : Len(word) <= Len(w)
                             /\ FirstOfItsArity(word, cpu.hand, dict)

C5_Witness ==
    /\ Returned("MIN")
    /\ word # PASS
    /\ \E w \in Acceptable(cpu.hand, dict) : Len(w) > Len(word)
    /\ \E w \in Acceptable(cpu.hand, dict) : Len(w) = Len(word) /\ w # word

\* C6: MAX returns the first acceptable word, in enumeration order, of the
\* largest arity that has one, so a word of maximal length; it returns PASS
\* iff there is no acceptable word.
C6_MaxReturnsFirstLongest ==
    LET acc == Acceptable(cpu.hand, dict)
    IN  Returned("MAX")
        => /\ word = PASS <=> acc = {}
           /\ word # PASS => /\ word \in acc
                             /\ \A w \in acc : Len(word) >= Len(w)
                             /\ FirstOfItsArity(word, cpu.hand, dict)

C6_Witness ==
    /\ Returned("MAX")
    /\ word # PASS
    /\ \E w \in Acceptable(cpu.hand, dict) : Len(w) < Len(word)
    /\ \E w \in Acceptable(cpu.hand, dict) : Len(w) = Len(word) /\ w # word

\* C13: whatever the strategy, play returns PASS when the dictionary holds
\* no arrangement of 2..k tiles of the hand, so always for a hand of fewer
\* than 2 tiles; and every string it tests or returns as a word has between
\* 2 and k letters.
C13_NothingFoundIsPass ==
    called
    => /\ Acceptable(cpu.hand, dict) = {} => word = PASS
       /\ Len(cpu.hand) < 2 => word = PASS
       /\ \A w \in tested(cpu, dict) : Len(w) >= 2 /\ Len(w) <= Len(cpu.hand)
       /\ word # PASS => (Len(word) >= 2 /\ Len(word) <= Len(cpu.hand))

C13_Witness ==
    /\ called
    /\ Len(cpu.hand) >= 2
    /\ \E w \in dict : Len(w) = 1 /\ w[1] \in Range(cpu.hand)
    /\ \E w \in dict : Len(w) > Len(cpu.hand)
    /\ Acceptable(cpu.hand, dict) = {}
    /\ tested(cpu, dict) # {}
    /\ word = PASS

\* C14: a TEACH player returns for its own move what a SMART player returns
\* on the same hand and dictionary.
C14_TeachPlaysAsSmart ==
    Returned("TEACH") => word = play([cpu EXCEPT !.strategy = "SMART"], dict)

C14_Witness ==
    /\ Returned("TEACH")
    /\ word # PASS
    /\ \E w \in Acceptable(cpu.hand, dict) : score_of(w) < score_of(word) /\ Len(w) > Len(word)

(***************************************************************************)
(* The bag on its own: a SakClass in any state it can be in, from which a  *)
(* player draws a hand, as Game.setup does, and to which the drawn letters *)
(* are given back, as Game.run does on an exchange.                        *)
(***************************************************************************)
\* The bags: the tiles of the letter table, some of them drawn, in any order.
Bags ==
    {b \in UNION {[1..k -> Range(Alphabet)] : k \in 0..TotalTiles} :
        \A l \in Range(Alphabet) : Count(b, l) <= letters[l][1]}

\* The numbers of letters asked of the bag: none, some, all, more than all.
Draws == 0..(TotalTiles + 1)

BagInit ==
    /\ sak \in Bags
    /\ wordset = {}
    /\ players = <<>>
    /\ strategy = "SMART"
    /\ turn = 0
    /\ pc = "bag"
    /\ report = Note("none")
    /\ cpu = Computer("COMPUTER", "SMART")
    /\ dict = {}
    /\ word = <<>>
    /\ called = FALSE

\* cpu.hand = sak.getletters(n)
Draw(n) ==
    /\ pc = "bag"
    /\ LET d == getletters(sak, n)
       IN  sak' = d.sak /\ cpu' = [cpu EXCEPT !.hand = d.hand]
    /\ pc' = "drawn"
    /\ UNCHANGED <<wordset, players, strategy, turn, report, dict, word, called>>

\* cpu.hand = sak.getletters(n); sak.putbackletters(cpu.hand)
DrawAndGiveBack(n) ==
    /\ pc = "bag"
    /\ LET d == getletters(sak, n)
       IN  /\ cpu' = [cpu EXCEPT !.hand = d.hand]
           /\ sak' \in putbackletters(d.sak, d.hand)
    /\ pc' = "returned"
    /\ UNCHANGED <<wordset, players, strategy, turn, report, dict, word, called>>

BagNext == \E n \in Draws : Draw(n) \/ DrawAndGiveBack(n)

BagSpec == BagInit /\ [][BagNext]_vars

(***************************************************************************)
(* Properties of the bag                                                   *)
(***************************************************************************)
\* C15: drawing n letters and giving back exactly those leaves the bag with
\* the same letters, each as often as before, and so as many; only their
\* order may differ.
C15_DrawThenGiveBackRestores ==
    [][(pc = "bag" /\ pc' = "returned")
          => /\ Len(sak') = Len(sak)
             /\ \A l \in Range(Alphabet) : Count(sak', l) = Count(sak, l)]_vars

C15_Witness ==
    /\ pc = "returned"
    /\ Len(cpu.hand) >= 2
    /\ Len(sak) > Len(cpu.hand)
    /\ \E j \in 1..Len(cpu.hand) : sak[Len(sak) - j + 1] # cpu.hand[j]

\* C16: a draw of n from a bag of s letters is always possible; it returns
\* min(n, s) letters and takes exactly those out of the bag, and with n >= s
\* it returns every letter and leaves the bag empty.
C16_DrawReturnsWhatIsThere ==
    /\ [](pc = "bag" => \A n \in Draws : ENABLED Draw(n))
    /\ [][\A n \in Draws : (pc = "bag" /\ Draw(n))
            => /\ Len(cpu'.hand) = Min(n, Len(sak))
               /\ Len(sak') = Len(sak) - Min(n, Len(sak))
               /\ \A l \in Range(Alphabet) :
                     Count(sak', l) + Count(cpu'.hand, l) = Count(sak, l)
               /\ n >= Len(sak) => sak' = <<>>]_vars

C16_Witness ==
    /\ pc = "drawn"
    /\ sak = <<>>
    /\ Len(cpu.hand) >= 2
    /\ Len(cpu.hand) < TotalTiles

====
